---- MODULE Spec2Model ----
(***************************************************************************)
(* Order / payment workflow of the e-commerce services.                    *)
(*                                                                         *)
(*   payment-service  src/services/payment-service/src/routes/payments.ts  *)
(*                    src/services/payment-service/src/models/Payment.ts   *)
(*   order-service    src/services/order-service/src/routes/orders.ts      *)
(*                    src/unnamed/part_003 (models/Order.ts)               *)
(*                                                                         *)
(* Every route handler is an async function: between two awaits other      *)
(* requests run.  A handler is therefore a sequence of steps, one per      *)
(* awaited call that reads or writes shared state (the store, the cache,   *)
(* the gateway, the other service); the synchronous code between two       *)
(* awaits belongs to the step of the await that precedes it.  The arrival  *)
(* of a request touches no shared state and is part of its first step.     *)
(*                                                                         *)
(* A model instance returned by findOne is a private copy of the row;      *)
(* save() writes back the attributes the handler changed on that copy.     *)
(* Amounts are counted in cents (the handlers hand Math.round(x * 100) to  *)
(* the gateway).                                                           *)
(***************************************************************************)
EXTENDS Integers, Sequences, FiniteSets, TLC

\* ---------------------------------------------------------------- bounds
MaxOps == 3          \* requests accepted in a behaviour that starts with an empty store
MaxReqs == 2         \* requests accepted in a behaviour that starts with a stored payment or order
MaxItems == 2        \* line items in the body of one order
MaxPlaced == 1       \* create-order requests accepted in a behaviour
AmountSpan == 0      \* payment amounts range over MinAmountCents .. +AmountSpan

\* ------------------------------------------------------- program constants
MinAmountCents == 50 \* body('amount').isFloat({ min: 0.5 })
MinRefundCents == 1  \* body('amount').optional().isFloat({ min: 0.01 })

Slots == {1, 2}                  \* requests in flight at the same time
OrderIds == {1}                  \* the orders of the store
Customers == {1, 2}              \* customer 1 owns the orders, customer 2 does not
Principals == Customers \cup {3} \* 3: an administrator
MaxPayments == MaxOps + MaxReqs  \* more rows than any behaviour creates
Amounts == MinAmountCents .. (MinAmountCents + AmountSpan)
NoAmount == 0                    \* the optional body field is absent
RefundInputs ==
  {NoAmount, MinRefundCents, MinAmountCents - MinRefundCents, MinAmountCents,
   MinAmountCents + AmountSpan + 1}

UserId(w) == w
Role(w) == IF w = 3 THEN "admin" ELSE "customer"

VARIABLES
  orders,      \* order-service store: order id -> row
  orderItems,  \* order-service store: the rows of the order_items table
  orderCache,  \* redis order:<id> -> snapshot or NoSnap
  payments,    \* payment-service store: sequence of rows, id = index
  payCache,    \* redis payment:<id> -> snapshot or NoSnap
  intents,     \* gateway: sequence of payment intents, id = index
  events,      \* gateway: the signed events it has emitted, <<type, intent>>
  gwRefunded,  \* gateway: cents refunded per charge (charge id = intent id)
  reqs,        \* slot -> the request in flight there
  last,        \* the response sent most recently
  left,        \* requests the behaviour still accepts
  stock        \* product service: product id -> units in stock

vars == <<orders, orderItems, orderCache, payments, payCache, intents, events, gwRefunded,
          reqs, last, left, stock>>

NoSnap == [none |-> TRUE]
NoInst == [none |-> TRUE]

\* ======================================================== Payment model

PaymentStatus ==
  {"pending", "processing", "succeeded", "failed", "cancelled", "refunded",
   "partially_refunded"}

ActiveStatuses == {"pending", "processing", "succeeded"}

\* Payment.canBeRefunded()
canBeRefunded(p) == p.status = "succeeded" /\ p.refundedAmount < p.amount

\* Payment.getRemainingRefundableAmount()
getRemainingRefundableAmount(p) == p.amount - p.refundedAmount

\* Payment.addRefund(refundAmount), up to its save()
\* variant: the status is refunded only when the total exceeds the amount
addRefundStrict(p, refundAmount) ==
  LET total == p.refundedAmount + refundAmount
  IN [p EXCEPT !.refundedAmount = total,
               !.status = IF total > p.amount THEN "refunded" ELSE "partially_refunded"]

addRefund(p, refundAmount) ==
  LET total == p.refundedAmount + refundAmount
  IN  [p EXCEPT !.refundedAmount = total,
                !.status = IF total >= p.amount THEN "refunded"
                           ELSE "partially_refunded"]

\* instance.save(): the attributes changed on the copy are written to the row
SaveChanged(row, loaded, changed) ==
  [f \in DOMAIN row |-> IF changed[f] # loaded[f] THEN changed[f] ELSE row[f]]

\* ============================================================= requests

Idle ==
  [op |-> "idle", pc |-> "idle", who |-> 0, oid |-> 0, pid |-> 0, arg |-> 0,
   amt |-> 0, intent |-> 0, ev |-> "", sig |-> TRUE, inst |-> NoInst,
   upd |-> NoInst, res |-> "", body |-> << >>, k |-> 0, validated |-> 0,
   todo |-> {}, stockCall |-> "", sync |-> "", data |-> NoSnap]

\* what is kept of a request once it is answered
Reply(r) ==
  [op |-> r.op, res |-> r.res, who |-> r.who, oid |-> r.oid, pid |-> r.pid,
   ev |-> r.ev, sig |-> r.sig, k |-> r.k, stockCall |-> r.stockCall, data |-> r.data]

NoReply ==
  [op |-> "idle", res |-> "", who |-> 0, oid |-> 0, pid |-> 0, ev |-> "", sig |-> TRUE,
   k |-> 0, stockCall |-> "", data |-> NoSnap]

\* a new request takes the first slot that is not in use
Free(s) ==
  /\ reqs[s].pc = "idle"
  /\ \A t \in Slots : t < s => reqs[t].pc # "idle"
  /\ left > 0

Respond(r, result) == [r EXCEPT !.pc = "done", !.res = result]

\* the first step of a request: it is answered at once or stays in flight
Accept(s, r) ==
  /\ left' = left - 1
  /\ IF r.pc = "done"
       THEN reqs' = reqs /\ last' = Reply(r)
       ELSE reqs' = [reqs EXCEPT ![s] = r] /\ last' = last

\* a later step of the request in slot s
Advance(s, r) ==
  /\ left' = left
  /\ IF r.pc = "done"
       THEN reqs' = [reqs EXCEPT ![s] = Idle] /\ last' = Reply(r)
       ELSE reqs' = [reqs EXCEPT ![s] = r] /\ last' = last

OrderExists(o) == o \in DOMAIN orders

PaymentIds == 1 .. Len(payments)

\* ====================================================== payment gateway

GwOpen == {"requires_payment_method", "processing", "requires_capture"}

\* The customer and the gateway move an intent on; every move the gateway
\* reports is added to the events it delivers (and may redeliver).
GatewayAdvance(i) ==
  /\ i \in 1 .. Len(intents)
  /\ intents[i].status \in GwOpen
  /\ \E move \in {"process", "hold", "succeed", "fail", "cancel"} :
       \/ /\ move = "process"
          /\ intents[i].status = "requires_payment_method"
          /\ intents' = [intents EXCEPT ![i].status = "processing"]
          /\ UNCHANGED events
       \/ /\ move = "hold"
          /\ intents[i].status = "requires_payment_method"
          /\ intents' = [intents EXCEPT ![i].status = "requires_capture"]
          /\ UNCHANGED events
       \/ /\ move = "succeed"
          /\ intents' = [intents EXCEPT ![i].status = "succeeded"]
          /\ events' = events \cup {<<"payment_intent.succeeded", i>>}
       \/ /\ move = "fail"
          /\ intents[i].status # "requires_capture"
          /\ intents' = [intents EXCEPT ![i].status = "requires_payment_method",
                                        ![i].lastError = TRUE]
          /\ events' = events \cup {<<"payment_intent.payment_failed", i>>}
       \/ /\ move = "cancel"
          /\ intents' = [intents EXCEPT ![i].status = "canceled"]
          /\ events' = events \cup {<<"payment_intent.canceled", i>>}
  /\ UNCHANGED <<stock, orderItems, orders, orderCache, payments, payCache, gwRefunded, reqs, last, left>>

\* ================================================ POST /create-intent

\* variant: only a pending payment blocks a new payment intent
ExistingPaymentPendingOnly(o) ==
  {p \in PaymentIds : payments[p].orderId = o /\ payments[p].status = "pending"}

ExistingPayment(o) ==
  {p \in PaymentIds : payments[p].orderId = o /\ payments[p].status \in ActiveStatuses}

\* validation, getOrderDetails, the ownership check and Payment.findOne
CreateIntentCheck(s, w, o, a) ==
  /\ Free(s)
  /\ LET r == [Idle EXCEPT !.op = "create-intent", !.who = w, !.oid = o, !.amt = a]
     IN \E orderFetched \in BOOLEAN :
          Accept(s,
            IF ~orderFetched \/ ~OrderExists(o) THEN Respond(r, "order_not_found")
            ELSE IF orders[o].userId # UserId(w) /\ Role(w) # "admin"
              THEN Respond(r, "forbidden")
            ELSE IF ExistingPayment(o) # {} THEN Respond(r, "conflict")
            ELSE [r EXCEPT !.pc = "ci_gateway"])
  /\ UNCHANGED <<stock, orderItems, orders, orderCache, payments, payCache, intents, events, gwRefunded>>

\* stripe.paymentIntents.create
CreateIntentGateway(s) ==
  /\ reqs[s].pc = "ci_gateway"
  /\ \E created \in BOOLEAN :
       IF created
         THEN /\ intents' = Append(intents,
                      [status |-> "requires_payment_method", lastError |-> FALSE])
              /\ Advance(s, [reqs[s] EXCEPT !.pc = "ci_persist",
                                            !.intent = Len(intents) + 1])
         ELSE /\ Advance(s, Respond(reqs[s], "error"))
              /\ UNCHANGED intents
  /\ UNCHANGED <<stock, orderItems, orders, orderCache, payments, payCache, events, gwRefunded>>

NewPayment(o, u, i, a) ==
  [orderId |-> o, userId |-> u, stripePaymentIntentId |-> i, stripeChargeId |-> 0,
   amount |-> a, status |-> "pending", paymentMethodDetails |-> "null",
   refundedAmount |-> 0, failureReason |-> "null"]

\* Payment.create
CreateIntentPersist(s) ==
  /\ reqs[s].pc = "ci_persist"
  /\ LET r == reqs[s]
         row == NewPayment(r.oid, UserId(r.who), r.intent, r.amt)
     IN /\ payments' = Append(payments, row)
        /\ Advance(s, [r EXCEPT !.pc = "ci_cache", !.pid = Len(payments) + 1,
                                !.inst = row])
  /\ UNCHANGED <<stock, orderItems, orders, orderCache, payCache, intents, events, gwRefunded>>

\* redis.setex(payment:<id>) with the created instance, then the 201 response
CreateIntentCache(s) ==
  /\ reqs[s].pc = "ci_cache"
  /\ payCache' = [payCache EXCEPT ![reqs[s].pid] = reqs[s].inst]
  /\ Advance(s, Respond(reqs[s], "created"))
  /\ UNCHANGED <<stock, orderItems, orders, orderCache, payments, intents, events, gwRefunded>>

\* ============================================ updateOrderPaymentStatus

\* axios.put(order-service /api/orders/<id>, { paymentStatus }); an error is
\* logged and swallowed.  The order service sets the field, saves the row and
\* deletes order:<id>.
updateOrderPaymentStatus(o, paymentStatus, delivered) ==
  IF delivered /\ OrderExists(o)
    THEN /\ orders' = [orders EXCEPT ![o].paymentStatus = paymentStatus]
         /\ orderCache' = [orderCache EXCEPT ![o] = NoSnap]
    ELSE UNCHANGED <<orders, orderCache>>

\* how the call ended: the request goes on either way
AfterSync(r, o, delivered, pc) ==
  [r EXCEPT !.pc = pc, !.sync = IF delivered /\ OrderExists(o) THEN "ok" ELSE "failed"]

\* variant: a cancelled payment is not reported to the order service
OrderPaymentStatusForFailedOnly(status) ==
  CASE status = "succeeded" -> "paid"
    [] status = "failed" -> "failed"
    [] status = "refunded" -> "refunded"
    [] OTHER -> ""

\* the order payment status a payment status is mapped to ("" for none)
OrderPaymentStatusFor(status) ==
  CASE status = "succeeded" -> "paid"
    [] status \in {"failed", "cancelled"} -> "failed"
    [] status = "refunded" -> "refunded"
    [] OTHER -> ""

\* ===================================================== POST /stripe

IntentEvents ==
  {"payment_intent.succeeded", "payment_intent.payment_failed",
   "payment_intent.canceled"}

EventTypes ==
  IntentEvents \cup {"charge.dispute.created", "invoice.payment_succeeded", "unknown"}

PaymentOfIntent(i) == {p \in PaymentIds : payments[p].stripePaymentIntentId = i}

\* handlePaymentIntentSucceeded, up to its save()
handlePaymentIntentSucceeded(p, i) ==
  [p EXCEPT !.status = "succeeded", !.stripeChargeId = i,
            !.paymentMethodDetails = "card"]

\* handlePaymentIntentFailed, up to its save()
handlePaymentIntentFailed(p, i) ==
  [p EXCEPT !.status = "failed",
            !.failureReason = IF intents[i].lastError THEN "gateway message"
                              ELSE "Payment failed"]

\* handlePaymentIntentCanceled, up to its save()
handlePaymentIntentCanceled(p, i) == [p EXCEPT !.status = "cancelled"]

\* variant: the event is processed without verifying its signature
WebhookReceiveUnverified(s, type, i, signed) ==
  /\ Free(s)
  /\ i \in 1 .. Len(intents)
  /\ signed /\ type \in IntentEvents => <<type, i>> \in events
  /\ signed /\ type = "charge.dispute.created" => intents[i].status = "succeeded"
  /\ LET r == [Idle EXCEPT !.op = "webhook", !.ev = type, !.sig = signed, !.intent = i]
         found == PaymentOfIntent(i)
     IN Accept(s,
          IF type \notin IntentEvents \/ found = {} THEN Respond(r, "ack")
          ELSE LET p == CHOOSE x \in found : TRUE
                   row == payments[p]
               IN [r EXCEPT !.pc = "wh_save", !.pid = p, !.inst = row,
                     !.upd = CASE type = "payment_intent.succeeded" ->
                                    handlePaymentIntentSucceeded(row, i)
                               [] type = "payment_intent.payment_failed" ->
                                    handlePaymentIntentFailed(row, i)
                               [] OTHER -> handlePaymentIntentCanceled(row, i)])
  /\ UNCHANGED <<stock, orderItems, orders, orderCache, payments, payCache, intents, events, gwRefunded>>

\* variant: an event of any other type is handled as a cancellation
WebhookReceiveDefaultCancel(s, type, i, signed) ==
  /\ Free(s)
  /\ i \in 1 .. Len(intents)
  /\ signed /\ type \in IntentEvents => <<type, i>> \in events
  /\ signed /\ type = "charge.dispute.created" => intents[i].status = "succeeded"
  /\ LET r == [Idle EXCEPT !.op = "webhook", !.ev = type, !.sig = signed, !.intent = i]
         found == PaymentOfIntent(i)
     IN Accept(s,
          IF ~signed THEN Respond(r, "invalid_signature")
          ELSE IF found = {} THEN Respond(r, "ack")
          ELSE LET p == CHOOSE x \in found : TRUE
                   row == payments[p]
               IN [r EXCEPT !.pc = "wh_save", !.pid = p, !.inst = row,
                     !.upd = CASE type = "payment_intent.succeeded" ->
                                    handlePaymentIntentSucceeded(row, i)
                               [] type = "payment_intent.payment_failed" ->
                                    handlePaymentIntentFailed(row, i)
                               [] OTHER -> handlePaymentIntentCanceled(row, i)])
  /\ UNCHANGED <<stock, orderItems, orders, orderCache, payments, payCache, intents, events, gwRefunded>>

\* stripe.webhooks.constructEvent, the switch on event.type and the handler's
\* Payment.findOne.  A signed event is one the gateway emitted; an event whose
\* signature does not verify may carry anything.
WebhookReceive(s, type, i, signed) ==
  /\ Free(s)
  /\ i \in 1 .. Len(intents)
  /\ signed /\ type \in IntentEvents => <<type, i>> \in events
  /\ signed /\ type = "charge.dispute.created" => intents[i].status = "succeeded"
  /\ LET r == [Idle EXCEPT !.op = "webhook", !.ev = type, !.sig = signed, !.intent = i]
         found == PaymentOfIntent(i)
     IN Accept(s,
          IF ~signed THEN Respond(r, "invalid_signature")
          ELSE IF type \notin IntentEvents \/ found = {} THEN Respond(r, "ack")
          ELSE LET p == CHOOSE x \in found : TRUE
                   row == payments[p]
               IN [r EXCEPT !.pc = "wh_save", !.pid = p, !.inst = row,
                     !.upd = CASE type = "payment_intent.succeeded" ->
                                    handlePaymentIntentSucceeded(row, i)
                               [] type = "payment_intent.payment_failed" ->
                                    handlePaymentIntentFailed(row, i)
                               [] OTHER -> handlePaymentIntentCanceled(row, i)])
  /\ UNCHANGED <<stock, orderItems, orders, orderCache, payments, payCache, intents, events, gwRefunded>>

\* payment.save()
WebhookSave(s) ==
  /\ reqs[s].pc = "wh_save"
  /\ LET r == reqs[s]
     IN /\ payments' = [payments EXCEPT ![r.pid] = SaveChanged(@, r.inst, r.upd)]
        /\ Advance(s, [r EXCEPT !.pc = "wh_sync"])
  /\ UNCHANGED <<stock, orderItems, orders, orderCache, payCache, intents, events, gwRefunded>>

\* updateOrderPaymentStatus(payment.orderId, 'paid' | 'failed')
WebhookSync(s) ==
  /\ reqs[s].pc = "wh_sync"
  /\ \E delivered \in BOOLEAN :
       /\ updateOrderPaymentStatus(reqs[s].upd.orderId,
                                   OrderPaymentStatusFor(reqs[s].upd.status), delivered)
       /\ Advance(s, AfterSync(reqs[s], reqs[s].upd.orderId, delivered, "wh_del"))
  /\ UNCHANGED <<stock, orderItems, payments, payCache, intents, events, gwRefunded>>

\* redis.del(payment:<id>), then { received: true }
WebhookDel(s) ==
  /\ reqs[s].pc = "wh_del"
  /\ payCache' = [payCache EXCEPT ![reqs[s].pid] = NoSnap]
  /\ Advance(s, Respond(reqs[s], "ack"))
  /\ UNCHANGED <<stock, orderItems, orders, orderCache, payments, intents, events, gwRefunded>>

\* ======================================================== POST /confirm

\* the switch on paymentIntent.status
ConfirmStatus(gatewayStatus) ==
  CASE gatewayStatus = "succeeded" -> "succeeded"
    [] gatewayStatus = "processing" -> "processing"
    [] gatewayStatus \in {"requires_payment_method", "requires_confirmation",
                          "requires_action"} -> "pending"
    [] gatewayStatus = "canceled" -> "cancelled"
    [] OTHER -> "failed"

\* the instance after the switch and the assignments that follow it
ConfirmUpdate(p, i) ==
  LET newStatus == ConfirmStatus(intents[i].status)
  IN [p EXCEPT
        !.status = newStatus,
        !.stripeChargeId = IF newStatus = "succeeded" THEN i ELSE @,
        !.paymentMethodDetails = IF newStatus = "succeeded" THEN "card" ELSE "empty",
        !.failureReason = IF newStatus = "failed"
                            THEN (IF intents[i].lastError THEN "gateway message"
                                  ELSE "Unknown error")
                            ELSE @]

\* Payment.findOne({ stripePaymentIntentId, orderId, userId }); for an
\* administrator the userId condition is the value undefined, which the ORM
\* either drops or refuses.
ConfirmFind(s, w, i, o) ==
  /\ Free(s)
  /\ i \in 1 .. Len(intents)
  /\ LET r == [Idle EXCEPT !.op = "confirm", !.who = w, !.oid = o, !.intent = i]
         found == {p \in PaymentOfIntent(i) :
                     /\ payments[p].orderId = o
                     /\ Role(w) = "admin" \/ payments[p].userId = UserId(w)}
     IN \E refused \in BOOLEAN :
          /\ refused => Role(w) = "admin"
          /\ Accept(s,
               IF refused THEN Respond(r, "error")
               ELSE IF found = {} THEN Respond(r, "notfound")
               ELSE LET p == CHOOSE x \in found : TRUE
                    IN [r EXCEPT !.pc = "cf_retrieve", !.pid = p,
                                 !.inst = payments[p]])
  /\ UNCHANGED <<stock, orderItems, orders, orderCache, payments, payCache, intents, events, gwRefunded>>

\* stripe.paymentIntents.retrieve and the switch
ConfirmRetrieve(s) ==
  /\ reqs[s].pc = "cf_retrieve"
  /\ LET r == reqs[s]
     IN \E retrieved \in BOOLEAN :
          Advance(s,
            IF retrieved
              THEN [r EXCEPT !.pc = "cf_save",
                             !.upd = ConfirmUpdate(r.inst, r.inst.stripePaymentIntentId)]
              ELSE Respond(r, "error"))
  /\ UNCHANGED <<stock, orderItems, orders, orderCache, payments, payCache, intents, events, gwRefunded>>

\* payment.save()
ConfirmSave(s) ==
  /\ reqs[s].pc = "cf_save"
  /\ LET r == reqs[s]
     IN /\ payments' = [payments EXCEPT ![r.pid] = SaveChanged(@, r.inst, r.upd)]
        /\ Advance(s, [r EXCEPT !.pc =
             IF OrderPaymentStatusFor(r.upd.status) # "" THEN "cf_sync" ELSE "cf_del"])
  /\ UNCHANGED <<stock, orderItems, orders, orderCache, payCache, intents, events, gwRefunded>>

\* variant: an error of the order service ends the request with 500
ConfirmSyncThrowing(s) ==
  /\ reqs[s].pc = "cf_sync"
  /\ \E delivered \in BOOLEAN :
       /\ updateOrderPaymentStatus(reqs[s].oid,
                                   OrderPaymentStatusFor(reqs[s].upd.status), delivered)
       /\ Advance(s, IF delivered /\ OrderExists(reqs[s].oid)
                       THEN AfterSync(reqs[s], reqs[s].oid, delivered, "cf_del")
                       ELSE Respond(reqs[s], "error"))
  /\ UNCHANGED <<stock, orderItems, payments, payCache, intents, events, gwRefunded>>

\* updateOrderPaymentStatus(orderId, 'paid' | 'failed'), orderId from the body
ConfirmSync(s) ==
  /\ reqs[s].pc = "cf_sync"
  /\ \E delivered \in BOOLEAN :
       /\ updateOrderPaymentStatus(reqs[s].oid,
                                   OrderPaymentStatusFor(reqs[s].upd.status), delivered)
       /\ Advance(s, AfterSync(reqs[s], reqs[s].oid, delivered, "cf_del"))
  /\ UNCHANGED <<stock, orderItems, payments, payCache, intents, events, gwRefunded>>

\* redis.del(payment:<id>), then the response
ConfirmDel(s) ==
  /\ reqs[s].pc = "cf_del"
  /\ payCache' = [payCache EXCEPT ![reqs[s].pid] = NoSnap]
  /\ Advance(s, Respond(reqs[s], "ok"))
  /\ UNCHANGED <<stock, orderItems, orders, orderCache, payments, intents, events, gwRefunded>>

\* ===================================================== POST /:id/refund

\* Payment.findOne({ id [, userId] }), canBeRefunded and the balance check
RefundFind(s, w, p, a) ==
  /\ Free(s)
  /\ p \in PaymentIds
  /\ LET r == [Idle EXCEPT !.op = "refund", !.who = w, !.pid = p, !.arg = a]
         row == payments[p]
         refundAmount == IF a # NoAmount THEN a ELSE getRemainingRefundableAmount(row)
     IN Accept(s,
          IF Role(w) # "admin" /\ row.userId # UserId(w) THEN Respond(r, "notfound")
          ELSE IF ~canBeRefunded(row) THEN Respond(r, "cannot_refund")
          ELSE IF refundAmount > getRemainingRefundableAmount(row)
            THEN Respond(r, "exceeds")
          ELSE [r EXCEPT !.pc = "rf_gateway", !.amt = refundAmount, !.inst = row,
                         !.oid = row.orderId])
  /\ UNCHANGED <<stock, orderItems, orders, orderCache, payments, payCache, intents, events, gwRefunded>>

\* variant: the refund is applied locally whether or not the gateway executed it
RefundGatewayOptimistic(s) ==
  /\ reqs[s].pc = "rf_gateway"
  /\ LET r == reqs[s]
     IN \E executed \in BOOLEAN :
          /\ gwRefunded' = [gwRefunded EXCEPT ![r.inst.stripeChargeId] =
                              IF executed THEN @ + r.amt ELSE @]
          /\ Advance(s, [r EXCEPT !.pc = "rf_save", !.upd = addRefund(r.inst, r.amt)])
  /\ UNCHANGED <<stock, orderItems, orders, orderCache, payments, payCache, intents, events>>

\* stripe.refunds.create({ charge, amount }); on success payment.addRefund
\* changes the instance and calls save()
RefundGateway(s) ==
  /\ reqs[s].pc = "rf_gateway"
  /\ LET r == reqs[s]
     IN \E executed \in BOOLEAN :
          IF executed
            THEN /\ gwRefunded' = [gwRefunded EXCEPT ![r.inst.stripeChargeId] = @ + r.amt]
                 /\ Advance(s, [r EXCEPT !.pc = "rf_save", !.upd = addRefund(r.inst, r.amt)])
            ELSE /\ Advance(s, Respond(r, "error"))
                 /\ UNCHANGED gwRefunded
  /\ UNCHANGED <<stock, orderItems, orders, orderCache, payments, payCache, intents, events>>

\* the save() of payment.addRefund
RefundSave(s) ==
  /\ reqs[s].pc = "rf_save"
  /\ LET r == reqs[s]
     IN /\ payments' = [payments EXCEPT ![r.pid] = SaveChanged(@, r.inst, r.upd)]
        /\ Advance(s, [r EXCEPT !.pc =
             IF r.upd.status = "refunded" THEN "rf_sync" ELSE "rf_del"])
  /\ UNCHANGED <<stock, orderItems, orders, orderCache, payCache, intents, events, gwRefunded>>

\* updateOrderPaymentStatus(payment.orderId, 'refunded')
RefundSync(s) ==
  /\ reqs[s].pc = "rf_sync"
  /\ \E delivered \in BOOLEAN :
       /\ updateOrderPaymentStatus(reqs[s].upd.orderId,
                                   OrderPaymentStatusFor(reqs[s].upd.status), delivered)
       /\ Advance(s, AfterSync(reqs[s], reqs[s].upd.orderId, delivered, "rf_del"))
  /\ UNCHANGED <<stock, orderItems, payments, payCache, intents, events, gwRefunded>>

\* redis.del(payment:<id>), then the response
RefundDel(s) ==
  /\ reqs[s].pc = "rf_del"
  /\ payCache' = [payCache EXCEPT ![reqs[s].pid] = NoSnap]
  /\ Advance(s, Respond(reqs[s], "ok"))
  /\ UNCHANGED <<stock, orderItems, orders, orderCache, payments, intents, events, gwRefunded>>

\* ========================================================= order model

OrderStatus ==
  {"pending", "confirmed", "processing", "shipped", "delivered", "cancelled", "refunded"}

OrderPaymentStatus == {"pending", "paid", "failed", "refunded"}

\* variant: an order being processed can still be cancelled
canBeCancelledLate(order) == order.status \in {"pending", "confirmed", "processing"}

canBeCancelled(order) == order.status \in {"pending", "confirmed"}

updateStatus(order, newStatus) == [order EXCEPT !.status = newStatus]

\* ---- amounts.  Money is counted in thousandths of a dollar, so that a unit
\* price below one cent, which createOrderValidation lets through, has a value.

\* a DECIMAL(10, 2) column keeps two decimals: the value written is rounded
\* to the nearest cent
Decimal2(m) == ((m + 5) \div 10) * 10

\* items.reduce((total, item) => total + item.totalPrice, 0), the sum the
\* loop of POST / accumulates in subtotal
RECURSIVE SumOfLines(_)
SumOfLines(items) ==
  IF items = << >> THEN 0
  ELSE items[1].quantity * items[1].unitPrice + SumOfLines(Tail(items))

taxRate == 8            \* per cent
FreeShippingFrom == 100000
baseRate == 9990
perItemRate == 2990

\* Math.round(subtotal * taxRate * 100) / 100
calculateTax(subtotal) == ((subtotal * taxRate + 500) \div 1000) * 10

\* variant: free shipping only above the threshold
calculateShippingAbove(subtotal, items) ==
  IF subtotal > FreeShippingFrom THEN 0
  ELSE baseRate + (Len(items) - 1) * perItemRate

calculateShipping(subtotal, items) ==
  IF subtotal >= FreeShippingFrom THEN 0
  ELSE baseRate + (Len(items) - 1) * perItemRate

\* the attributes POST / hands to Order.create
OrderInstance(u, items) ==
  LET subtotal == SumOfLines(items)
      taxAmount == calculateTax(subtotal)
      shippingAmount == calculateShipping(subtotal, items)
      discountAmount == 0
  IN [userId |-> u, status |-> "pending", paymentStatus |-> "pending", notes |-> "null",
      totalAmount |-> subtotal + taxAmount + shippingAmount - discountAmount,
      subtotal |-> subtotal, taxAmount |-> taxAmount,
      shippingAmount |-> shippingAmount, discountAmount |-> discountAmount]

\* the row the insert leaves in the orders table
OrderRow(order) ==
  [order EXCEPT !.totalAmount = Decimal2(@), !.subtotal = Decimal2(@),
                !.taxAmount = Decimal2(@), !.shippingAmount = Decimal2(@),
                !.discountAmount = Decimal2(@)]

\* the attributes of one OrderItem.create, and the row it leaves
ItemInstance(o, n, item) ==
  [orderId |-> o, line |-> n, productId |-> item.productId, quantity |-> item.quantity,
   unitPrice |-> item.unitPrice, totalPrice |-> item.quantity * item.unitPrice]

ItemRow(i) == [i EXCEPT !.unitPrice = Decimal2(@), !.totalPrice = Decimal2(@)]

\* the body of the order the store holds when no request has been made
StoredBody == <<[productId |-> 1, quantity |-> 1, unitPrice |-> 100000]>>

\* the row Order.create inserts
NewOrder(u) == OrderRow(OrderInstance(u, StoredBody))

\* a field the request body does not carry
Undefined == "undefined"

\* the bodies PUT /:id is called with: one field, none, or all three
UpdateBodies ==
  {[status |-> st, paymentStatus |-> Undefined, notes |-> Undefined] :
     st \in OrderStatus \cup {Undefined}}
  \cup {[status |-> Undefined, paymentStatus |-> ps, notes |-> Undefined] :
          ps \in OrderPaymentStatus}
  \cup {[status |-> Undefined, paymentStatus |-> Undefined, notes |-> "note"],
        [status |-> "cancelled", paymentStatus |-> "refunded", notes |-> "note"]}

\* ============================================================== POST /

\* the line items a body is made of, and the stock the product service reports
ProductIds == {1, 2}

\* one unit of product 1 at 100.00 and two units of product 2 at 0.004
Items ==
  {[productId |-> 1, quantity |-> 1, unitPrice |-> 100000],
   [productId |-> 2, quantity |-> 2, unitPrice |-> 4]}

Stocks == {0, 1, 2}

\* the stock of a catalogue that has every product
InStock == [p \in ProductIds |-> 2]

ItemLists == UNION {[1 .. n -> Items] : n \in 0 .. MaxItems}

\* createOrderValidation: items is an array with at least one entry
CreateOrderValidate(s, w, items) ==
  /\ Free(s)
  /\ LET r == [Idle EXCEPT !.op = "create-order", !.who = w, !.body = items]
     IN Accept(s, IF Len(items) < 1 THEN Respond(r, "invalid")
                  ELSE [r EXCEPT !.pc = "co_product", !.k = 1])
  /\ UNCHANGED <<stock, orders, orderItems, orderCache, payments, payCache, intents, events,
                 gwRefunded>>

\* validateAndGetProductDetails(item.productId): an error of the product
\* service is thrown on and ends the request with 500
CreateOrderProduct(s) ==
  /\ reqs[s].pc = "co_product"
  /\ \E fetched \in BOOLEAN :
       Advance(s, IF fetched THEN [reqs[s] EXCEPT !.pc = "co_stock"]
                  ELSE Respond(reqs[s], "error"))
  /\ UNCHANGED <<stock, orders, orderItems, orderCache, payments, payCache, intents, events,
                 gwRefunded>>

\* variant: a stock call that fails counts as stock
checkProductStockFailOpen(answered, availableStock, quantity) ==
  IF answered THEN availableStock >= quantity ELSE TRUE

\* checkProductStock: availableStock >= quantity, and false when the call to
\* the product service throws
checkProductStock(answered, availableStock, quantity) ==
  IF answered THEN availableStock >= quantity ELSE FALSE

\* how the stock call of the current item ended
StockCall(r, answered) == [r EXCEPT !.stockCall = IF answered THEN "answered" ELSE "failed"]

\* variant: an item without stock is left out and the loop goes on
CreateOrderStockSkip(s) ==
  /\ reqs[s].pc = "co_stock"
  /\ LET r == reqs[s]
         item == r.body[r.k]
         more == [r EXCEPT !.k = @ + 1, !.pc = IF r.k < Len(r.body) THEN "co_product"
                                               ELSE "co_order"]
     IN \E answered \in BOOLEAN :
          LET availableStock == stock[item.productId]
              hasStock == checkProductStock(answered, availableStock, item.quantity)
          IN Advance(s, StockCall(IF hasStock THEN [more EXCEPT !.validated = @ + 1]
                                  ELSE more, answered))
  /\ UNCHANGED <<stock, orders, orderItems, orderCache, payments, payCache, intents, events,
                 gwRefunded>>

\* checkProductStock(item.productId, item.quantity), false when the product
\* service cannot be reached; then validatedItems.push and the next item
CreateOrderStock(s) ==
  /\ reqs[s].pc = "co_stock"
  /\ LET r == reqs[s]
         item == r.body[r.k]
     IN \E answered \in BOOLEAN :
          LET availableStock == stock[item.productId]
              hasStock == checkProductStock(answered, availableStock, item.quantity)
          IN Advance(s, StockCall(
               IF ~hasStock THEN Respond(r, "no_stock")
               ELSE [r EXCEPT !.validated = @ + 1,
                              !.k = @ + 1,
                              !.pc = IF r.k < Len(r.body) THEN "co_product"
                                     ELSE "co_order"], answered))
  /\ UNCHANGED <<stock, orders, orderItems, orderCache, payments, payCache, intents, events,
                 gwRefunded>>

\* variant: the order takes the units of its first line out of the stock
CreateOrderPersistReserving(s) ==
  /\ reqs[s].pc = "co_order"
  /\ LET r == reqs[s]
     IN \E created \in BOOLEAN :
          IF created
            THEN /\ orders' = Append(orders, OrderRow(OrderInstance(UserId(r.who), r.body)))
                 /\ stock' = [stock EXCEPT ![r.body[1].productId] = @ - r.body[1].quantity]
                 /\ Advance(s, [r EXCEPT !.pc = "co_items", !.oid = Len(orders) + 1,
                                         !.inst = OrderInstance(UserId(r.who), r.body),
                                         !.todo = 1 .. r.validated])
            ELSE /\ Advance(s, Respond(r, "error"))
                 /\ UNCHANGED <<orders, stock>>
  /\ UNCHANGED <<orderItems, orderCache, payments, payCache, intents, events, gwRefunded>>

\* Order.create({ userId, status: PENDING, paymentStatus: PENDING, ... })
CreateOrderPersist(s) ==
  /\ reqs[s].pc = "co_order"
  /\ LET r == reqs[s]
     IN \E created \in BOOLEAN :
          IF created
            THEN /\ orders' = Append(orders, OrderRow(OrderInstance(UserId(r.who), r.body)))
                 /\ Advance(s, [r EXCEPT !.pc = "co_items", !.oid = Len(orders) + 1,
                                         !.inst = OrderInstance(UserId(r.who), r.body),
                                         !.todo = 1 .. r.validated])
            ELSE /\ Advance(s, Respond(r, "error"))
                 /\ UNCHANGED orders
  /\ UNCHANGED <<stock, orderItems, orderCache, payments, payCache, intents, events, gwRefunded>>

\* one OrderItem.create of the Promise.all, the inserts in any order.  The
\* first insert that fails rejects the Promise.all and the request ends with
\* 500; the inserts that succeed are the ones taken before it.
CreateOrderItem(s, n) ==
  /\ reqs[s].pc = "co_items"
  /\ n \in reqs[s].todo
  /\ LET r == reqs[s]
     IN \E written \in BOOLEAN :
          IF written
            THEN /\ orderItems' = orderItems \cup
                      {ItemRow(ItemInstance(r.oid, n, r.body[n]))}
                 /\ Advance(s, [r EXCEPT !.todo = @ \ {n},
                                         !.pc = IF r.todo = {n} THEN "co_cache" ELSE @])
            ELSE /\ Advance(s, Respond(r, "error"))
                 /\ UNCHANGED orderItems
  /\ UNCHANGED <<stock, orders, orderCache, payments, payCache, intents, events, gwRefunded>>

\* redis.setex(order:<id>, { ...order, items }), then 201
CreateOrderCache(s) ==
  /\ reqs[s].pc = "co_cache"
  /\ LET r == reqs[s]
     IN /\ orderCache' = [orderCache EXCEPT ![r.oid] =
             [order |-> r.inst,
              items |-> {ItemInstance(r.oid, n, r.body[n]) : n \in 1 .. Len(r.body)}]]
        /\ Advance(s, Respond(r, "created"))
  /\ UNCHANGED <<stock, orders, orderItems, payments, payCache, intents, events, gwRefunded>>

\* ============================================================ PUT /:id

\* Order.findOne({ id [, userId] }), the cancellation guard and the
\* assignments to the loaded instance
UpdateFind(s, w, o, body) ==
  /\ Free(s)
  /\ o \in OrderIds
  /\ LET r == [Idle EXCEPT !.op = "update", !.who = w, !.oid = o]
         row == orders[o]
         withStatus == IF body.status # Undefined
                         THEN [row EXCEPT !.status = body.status] ELSE row
         withPayment == IF body.paymentStatus # Undefined
                          THEN [withStatus EXCEPT !.paymentStatus = body.paymentStatus]
                          ELSE withStatus
         withNotes == IF body.notes # Undefined
                        THEN [withPayment EXCEPT !.notes = body.notes] ELSE withPayment
     IN Accept(s,
          IF Role(w) # "admin" /\ row.userId # UserId(w) THEN Respond(r, "notfound")
          ELSE IF body.status = "cancelled" /\ ~canBeCancelled(row)
            THEN Respond(r, "invalid")
          ELSE [r EXCEPT !.pc = "up_save", !.inst = row, !.upd = withNotes])
  /\ UNCHANGED <<stock, orderItems, orders, orderCache, payments, payCache, intents, events, gwRefunded>>

\* order.save()
UpdateSave(s) ==
  /\ reqs[s].pc = "up_save"
  /\ orders' = [orders EXCEPT ![reqs[s].oid] = SaveChanged(@, reqs[s].inst, reqs[s].upd)]
  /\ Advance(s, [reqs[s] EXCEPT !.pc = "up_del"])
  /\ UNCHANGED <<stock, orderItems, orderCache, payments, payCache, intents, events, gwRefunded>>

\* redis.del(order:<id>), then the response
UpdateDel(s) ==
  /\ reqs[s].pc = "up_del"
  /\ orderCache' = [orderCache EXCEPT ![reqs[s].oid] = NoSnap]
  /\ Advance(s, Respond(reqs[s], "ok"))
  /\ UNCHANGED <<stock, orderItems, orders, payments, payCache, intents, events, gwRefunded>>

\* ====================================================== POST /:id/cancel

\* variant: the order is looked up by id alone
CancelFindOpen(s, w, o) ==
  /\ Free(s)
  /\ o \in OrderIds
  /\ LET r == [Idle EXCEPT !.op = "cancel", !.who = w, !.oid = o]
         row == orders[o]
     IN Accept(s,
          IF ~canBeCancelled(row) THEN Respond(r, "invalid")
          ELSE [r EXCEPT !.pc = "cn_save", !.inst = row,
                         !.upd = updateStatus(row, "cancelled")])
  /\ UNCHANGED <<stock, orderItems, orders, orderCache, payments, payCache, intents, events, gwRefunded>>

\* Order.findOne({ id [, userId] }) and canBeCancelled
CancelFind(s, w, o) ==
  /\ Free(s)
  /\ o \in OrderIds
  /\ LET r == [Idle EXCEPT !.op = "cancel", !.who = w, !.oid = o]
         row == orders[o]
     IN Accept(s,
          IF Role(w) # "admin" /\ row.userId # UserId(w) THEN Respond(r, "notfound")
          ELSE IF ~canBeCancelled(row) THEN Respond(r, "invalid")
          ELSE [r EXCEPT !.pc = "cn_save", !.inst = row,
                         !.upd = updateStatus(row, "cancelled")])
  /\ UNCHANGED <<stock, orderItems, orders, orderCache, payments, payCache, intents, events, gwRefunded>>

\* the save() of order.updateStatus(CANCELLED)
CancelSave(s) ==
  /\ reqs[s].pc = "cn_save"
  /\ orders' = [orders EXCEPT ![reqs[s].oid] = SaveChanged(@, reqs[s].inst, reqs[s].upd)]
  /\ Advance(s, [reqs[s] EXCEPT !.pc = "cn_del"])
  /\ UNCHANGED <<stock, orderItems, orderCache, payments, payCache, intents, events, gwRefunded>>

\* variant: the cached order is replaced by the cancelled one
CancelDelRewrite(s) ==
  /\ reqs[s].pc = "cn_del"
  /\ orderCache' = [orderCache EXCEPT ![reqs[s].oid] =
                      [order |-> orders[reqs[s].oid],
                       items |-> {i \in orderItems : i.orderId = reqs[s].oid}]]
  /\ Advance(s, Respond(reqs[s], "ok"))
  /\ UNCHANGED <<stock, orderItems, orders, payments, payCache, intents, events, gwRefunded>>

\* redis.del(order:<id>), then the response
CancelDel(s) ==
  /\ reqs[s].pc = "cn_del"
  /\ orderCache' = [orderCache EXCEPT ![reqs[s].oid] = NoSnap]
  /\ Advance(s, Respond(reqs[s], "ok"))
  /\ UNCHANGED <<stock, orderItems, orders, payments, payCache, intents, events, gwRefunded>>

\* ======================================================== GET /:id

\* variant: a cached order is returned to whoever asks for it
GetOrderCachedOpen(s, w, o) ==
  /\ Free(s)
  /\ o \in DOMAIN orderCache
  /\ LET r == [Idle EXCEPT !.op = "get-order", !.who = w, !.oid = o]
         cached == orderCache[o]
     IN Accept(s, IF cached # NoSnap
                    THEN Respond([r EXCEPT !.data = cached], "ok")
                    ELSE [r EXCEPT !.pc = "go_find"])
  /\ UNCHANGED <<stock, orders, orderItems, orderCache, payments, payCache, intents, events,
                 gwRefunded>>

\* redis.get(order:<id>): the snapshot is the answer when the caller is its
\* userId or an admin
GetOrderCached(s, w, o) ==
  /\ Free(s)
  /\ o \in DOMAIN orderCache
  /\ LET r == [Idle EXCEPT !.op = "get-order", !.who = w, !.oid = o]
         cached == orderCache[o]
     IN Accept(s, IF cached # NoSnap
                       /\ (cached.order.userId = UserId(w) \/ Role(w) = "admin")
                    THEN Respond([r EXCEPT !.data = cached], "ok")
                    ELSE [r EXCEPT !.pc = "go_find"])
  /\ UNCHANGED <<stock, orders, orderItems, orderCache, payments, payCache, intents, events,
                 gwRefunded>>

\* Order.findOne({ id [, userId] }, include items)
GetOrderFind(s) ==
  /\ reqs[s].pc = "go_find"
  /\ LET r == reqs[s]
         o == r.oid
     IN Advance(s,
          IF ~OrderExists(o) THEN Respond(r, "notfound")
          ELSE IF Role(r.who) # "admin" /\ orders[o].userId # UserId(r.who)
            THEN Respond(r, "notfound")
          ELSE [r EXCEPT !.pc = "go_fill",
                         !.inst = [order |-> orders[o],
                                   items |-> {i \in orderItems : i.orderId = o}]])
  /\ UNCHANGED <<stock, orders, orderItems, orderCache, payments, payCache, intents, events,
                 gwRefunded>>

\* redis.setex(order:<id>, order.toJSON()), then the response
GetOrderFill(s) ==
  /\ reqs[s].pc = "go_fill"
  /\ orderCache' = [orderCache EXCEPT ![reqs[s].oid] = reqs[s].inst]
  /\ Advance(s, Respond([reqs[s] EXCEPT !.data = reqs[s].inst], "ok"))
  /\ UNCHANGED <<stock, orders, orderItems, payments, payCache, intents, events, gwRefunded>>

\* redis.get(payment:<id>): the snapshot is the answer when the caller is its
\* userId or an admin
GetPaymentCached(s, w, p) ==
  /\ Free(s)
  /\ p \in DOMAIN payCache
  /\ LET r == [Idle EXCEPT !.op = "get-payment", !.who = w, !.pid = p]
         cached == payCache[p]
     IN Accept(s, IF cached # NoSnap
                       /\ (cached.userId = UserId(w) \/ Role(w) = "admin")
                    THEN Respond([r EXCEPT !.data = cached], "ok")
                    ELSE [r EXCEPT !.pc = "gp_find"])
  /\ UNCHANGED <<stock, orders, orderItems, orderCache, payments, payCache, intents, events,
                 gwRefunded>>

\* Payment.findOne({ id [, userId] })
GetPaymentFind(s) ==
  /\ reqs[s].pc = "gp_find"
  /\ LET r == reqs[s]
         p == r.pid
     IN Advance(s,
          IF p \notin PaymentIds THEN Respond(r, "notfound")
          ELSE IF Role(r.who) # "admin" /\ payments[p].userId # UserId(r.who)
            THEN Respond(r, "notfound")
          ELSE [r EXCEPT !.pc = "gp_fill", !.inst = payments[p]])
  /\ UNCHANGED <<stock, orders, orderItems, orderCache, payments, payCache, intents, events,
                 gwRefunded>>

\* redis.setex(payment:<id>, payment.toJSON()), then the response
GetPaymentFill(s) ==
  /\ reqs[s].pc = "gp_fill"
  /\ payCache' = [payCache EXCEPT ![reqs[s].pid] = reqs[s].inst]
  /\ Advance(s, Respond([reqs[s] EXCEPT !.data = reqs[s].inst], "ok"))
  /\ UNCHANGED <<stock, orders, orderItems, orderCache, payments, intents, events, gwRefunded>>

\* ======================================================= specifications

\* the line item of the stored order
StoredItems == {ItemRow(ItemInstance(o, 1, StoredBody[1])) : o \in OrderIds}

Quiet ==
  /\ stock = InStock
  /\ orderItems = StoredItems
  /\ orderCache = [o \in OrderIds |-> NoSnap]
  /\ payCache = [p \in 1 .. MaxPayments |-> NoSnap]
  /\ gwRefunded = [c \in 0 .. MaxPayments |-> 0]
  /\ reqs = [s \in Slots |-> Idle]
  /\ last = NoReply

\* one order of customer 1, no payment yet
Init ==
  /\ orders = [o \in OrderIds |-> NewOrder(1)]
  /\ payments = << >>
  /\ intents = << >>
  /\ events = {}
  /\ Quiet
  /\ left = MaxOps

\* the store once customer 1 has paid the order: the payment that create-intent
\* persisted and the payment_intent.succeeded webhook updated
InitPaid ==
  /\ \E a \in Amounts :
       payments = << handlePaymentIntentSucceeded(NewPayment(1, 1, 1, a), 1) >>
  /\ \E synced \in BOOLEAN :
       orders = [o \in OrderIds |->
                   [NewOrder(1) EXCEPT !.paymentStatus = IF synced THEN "paid" ELSE @]]
  /\ intents = << [status |-> "succeeded", lastError |-> FALSE] >>
  /\ events = {<<"payment_intent.succeeded", 1>>}
  /\ Quiet
  /\ left = MaxReqs

CreateIntent(P) ==
  \/ \E s \in Slots, w \in P, o \in OrderIds, a \in Amounts :
       CreateIntentCheck(s, w, o, a)
  \/ \E s \in Slots : CreateIntentGateway(s)
  \/ \E s \in Slots : CreateIntentPersist(s)
  \/ \E s \in Slots : CreateIntentCache(s)

Webhook ==
  \/ \E s \in Slots, type \in EventTypes, i \in 1 .. MaxPayments, signed \in BOOLEAN :
       WebhookReceive(s, type, i, signed)
  \/ \E s \in Slots : WebhookSave(s)
  \/ \E s \in Slots : WebhookSync(s)
  \/ \E s \in Slots : WebhookDel(s)

Confirm(P) ==
  \/ \E s \in Slots, w \in P, i \in 1 .. MaxPayments, o \in OrderIds :
       ConfirmFind(s, w, i, o)
  \/ \E s \in Slots : ConfirmRetrieve(s)
  \/ \E s \in Slots : ConfirmSave(s)
  \/ \E s \in Slots : ConfirmSync(s)
  \/ \E s \in Slots : ConfirmDel(s)

Refund(P) ==
  \/ \E s \in Slots, w \in P, p \in 1 .. MaxPayments, a \in RefundInputs :
       RefundFind(s, w, p, a)
  \/ \E s \in Slots : RefundGateway(s)
  \/ \E s \in Slots : RefundSave(s)
  \/ \E s \in Slots : RefundSync(s)
  \/ \E s \in Slots : RefundDel(s)

Gateway == \E i \in 1 .. MaxPayments : GatewayAdvance(i)

PaymentService(P) ==
  CreateIntent(P) \/ Webhook \/ Confirm(P) \/ Refund(P) \/ Gateway

Next == PaymentService(Customers)

\* the payment workflow from an empty payment store, driven by customers
Spec == Init /\ [][Next]_vars

NextRefund == Refund(Principals) \/ Webhook \/ Confirm(Principals)

\* refunds and gateway events on a paid order
SpecRefund == InitPaid /\ [][NextRefund]_vars

\* the store once customer 1 has asked for a payment intent: the payment as
\* create-intent persisted it, and as a confirm call or a webhook has left it
InitStored ==
  /\ \E a \in Amounts, st \in {"pending", "processing", "succeeded", "failed", "cancelled"} :
       /\ intents = << [status |-> CASE st = "pending" -> "requires_payment_method"
                                     [] st = "processing" -> "processing"
                                     [] st = "succeeded" -> "succeeded"
                                     [] st = "failed" -> "requires_payment_method"
                                     [] OTHER -> "canceled",
                        lastError |-> (st = "failed")] >>
       /\ events = CASE st = "succeeded" -> {<<"payment_intent.succeeded", 1>>}
                     [] st = "failed" -> {<<"payment_intent.payment_failed", 1>>}
                     [] st = "cancelled" -> {<<"payment_intent.canceled", 1>>}
                     [] OTHER -> {}
       /\ payments =
            << CASE st = "pending" -> NewPayment(1, 1, 1, a)
                 [] st = "processing" -> ConfirmUpdate(NewPayment(1, 1, 1, a), 1)
                 [] st = "succeeded" -> handlePaymentIntentSucceeded(NewPayment(1, 1, 1, a), 1)
                 [] st = "failed" -> handlePaymentIntentFailed(NewPayment(1, 1, 1, a), 1)
                 [] OTHER -> handlePaymentIntentCanceled(NewPayment(1, 1, 1, a), 1) >>
       /\ \E synced \in BOOLEAN :
            orders = [o \in OrderIds |->
                        [NewOrder(1) EXCEPT !.paymentStatus =
                           IF synced /\ OrderPaymentStatusFor(st) # ""
                             THEN OrderPaymentStatusFor(st) ELSE @]]
  /\ stock = InStock
  /\ orderItems = StoredItems
  /\ orderCache = [o \in OrderIds |-> NoSnap]
  /\ payCache = [p \in 1 .. MaxPayments |->
                  IF p = 1 /\ payments[1].status = "pending" THEN payments[1] ELSE NoSnap]
  /\ gwRefunded = [c \in 0 .. MaxPayments |-> 0]
  /\ reqs = [s \in Slots |-> Idle]
  /\ last = NoReply
  /\ left = MaxReqs

NextCreate == CreateIntent(Principals) \/ Webhook \/ Confirm(Principals)

\* payment intents asked for an order that has a payment already
SpecCreate == InitStored /\ [][NextCreate]_vars

NextSync == Confirm(Customers) \/ Webhook \/ Refund(Customers)

\* confirm calls, gateway events and refunds on a stored payment
SpecSync == InitStored /\ [][NextSync]_vars

\* an order of customer 1 that has not been cancelled, no request in flight
InitOrder ==
  /\ \E st \in OrderStatus \ {"cancelled"}, ps \in {"pending", "paid"} :
       orders = [o \in OrderIds |->
                   [NewOrder(1) EXCEPT !.status = st, !.paymentStatus = ps]]
  /\ payments = << >>
  /\ intents = << >>
  /\ events = {}
  /\ Quiet
  /\ left = MaxReqs

Update(P) ==
  \/ \E s \in Slots, w \in P, o \in OrderIds, body \in UpdateBodies :
       UpdateFind(s, w, o, body)
  \/ \E s \in Slots : UpdateSave(s)
  \/ \E s \in Slots : UpdateDel(s)

Cancel(P) ==
  \/ \E s \in Slots, w \in P, o \in OrderIds : CancelFind(s, w, o)
  \/ \E s \in Slots : CancelSave(s)
  \/ \E s \in Slots : CancelDel(s)

NextOrder == Update(Principals) \/ Cancel(Principals)

\* status updates and cancellations of one order
SpecOrder == InitOrder /\ [][NextOrder]_vars

NextCancel == Cancel(Principals)

\* cancellations of one order
SpecCancel == InitOrder /\ [][NextCancel]_vars

\* an order service without orders
InitEmpty ==
  /\ stock \in [ProductIds -> Stocks]
  /\ orders = << >>
  /\ orderItems = {}
  /\ orderCache = [o \in 1 .. MaxPlaced |-> NoSnap]
  /\ payments = << >>
  /\ intents = << >>
  /\ events = {}
  /\ payCache = [p \in 1 .. MaxPayments |-> NoSnap]
  /\ gwRefunded = [c \in 0 .. MaxPayments |-> 0]
  /\ reqs = [s \in Slots |-> Idle]
  /\ last = NoReply
  /\ left = MaxPlaced

CreateOrder(P) ==
  \/ \E s \in Slots, w \in P, items \in ItemLists : CreateOrderValidate(s, w, items)
  \/ \E s \in Slots : CreateOrderProduct(s)
  \/ \E s \in Slots : CreateOrderStock(s)
  \/ \E s \in Slots : CreateOrderPersist(s)
  \/ \E s \in Slots, n \in 1 .. MaxItems : CreateOrderItem(s, n)
  \/ \E s \in Slots : CreateOrderCache(s)

GetOrder(P) ==
  \/ \E s \in Slots, w \in P, o \in OrderIds : GetOrderCached(s, w, o)
  \/ \E s \in Slots : GetOrderFind(s)
  \/ \E s \in Slots : GetOrderFill(s)

GetPayment(P) ==
  \/ \E s \in Slots, w \in P, p \in 1 .. MaxPayments : GetPaymentCached(s, w, p)
  \/ \E s \in Slots : GetPaymentFind(s)
  \/ \E s \in Slots : GetPaymentFill(s)

NextPlace == CreateOrder(Customers)

\* customers placing orders
SpecPlace == InitEmpty /\ [][NextPlace]_vars

\* the store with the pending order of customer 1, any stock
InitPlaced ==
  /\ stock \in [ProductIds -> Stocks]
  /\ orders = [o \in OrderIds |-> NewOrder(1)]
  /\ orderItems = StoredItems
  /\ orderCache = [o \in 1 .. (Cardinality(OrderIds) + MaxPlaced) |-> NoSnap]
  /\ payments = << >>
  /\ intents = << >>
  /\ events = {}
  /\ payCache = [p \in 1 .. MaxPayments |-> NoSnap]
  /\ gwRefunded = [c \in 0 .. MaxPayments |-> 0]
  /\ reqs = [s \in Slots |-> Idle]
  /\ last = NoReply
  /\ left = MaxPlaced

NextStock == CreateOrder(Customers) \/ Cancel(Customers)

\* orders placed and cancelled next to the stock of the product service
SpecStock == InitPlaced /\ [][NextStock]_vars

\* what GET /:id caches of an order and of a payment
OrderSnapshot(o) == [order |-> orders[o], items |-> {i \in orderItems : i.orderId = o}]

\* the paid order of customer 1, order and payment cached as stored once the
\* customer has read them
PaidOrder(cached) ==
  /\ payments = << handlePaymentIntentSucceeded(NewPayment(1, 1, 1, MinAmountCents), 1) >>
  /\ orders = [o \in OrderIds |-> [NewOrder(1) EXCEPT !.paymentStatus = "paid"]]
  /\ intents = << [status |-> "succeeded", lastError |-> FALSE] >>
  /\ events = {<<"payment_intent.succeeded", 1>>}
  /\ stock = InStock
  /\ orderItems = StoredItems
  /\ orderCache = [o \in OrderIds |-> IF cached THEN OrderSnapshot(o) ELSE NoSnap]
  /\ payCache = [p \in 1 .. MaxPayments |->
                  IF cached /\ p = 1 THEN payments[1] ELSE NoSnap]
  /\ gwRefunded = [c \in 0 .. MaxPayments |-> 0]
  /\ reqs = [s \in Slots |-> Idle]
  /\ last = NoReply
  /\ left = MaxReqs

InitCached == PaidOrder(TRUE)

InitRead == \E cached \in BOOLEAN : PaidOrder(cached)

NextRead == GetOrder(Principals) \/ GetPayment(Principals) \/ Cancel(Customers)

\* reads of the order and the payment by id, next to cancellations
SpecRead == InitRead /\ [][NextRead]_vars

NextMutate ==
  Update(Customers) \/ Cancel(Customers) \/ Confirm(Customers) \/ Refund(Customers)
    \/ Webhook

\* the mutations of a cached order and its cached payment
SpecMutate == InitCached /\ [][NextMutate]_vars

\* ================================================================ claims

\* the request a step accepts: answered at once (last') or put in a slot
Accepted == left' = left - 1

AcceptedReq ==
  IF reqs' = reqs THEN last'
  ELSE reqs'[CHOOSE s \in Slots : reqs'[s] # reqs[s]]

ActivePaymentsOf(o) ==
  {p \in DOMAIN payments :
     /\ payments[p].orderId = o
     /\ payments[p].status \in {"pending", "processing", "succeeded"}}

\* C1: in every reachable state each order has at most one payment whose
\* status is pending, processing or succeeded.
C1_OneActivePaymentPerOrder ==
  \A o \in OrderIds : Cardinality(ActivePaymentsOf(o)) <= 1

\* C2: a create-intent call for an order that has a pending, processing or
\* succeeded payment is answered at once with the conflict error (or, before
\* the check is reached, with the order lookup's or the ownership check's
\* error): it never goes on to the gateway, and the payments, the gateway's
\* intents and the cache stay as they are.
C2_CreateIntentConflict ==
  [][Accepted /\ AcceptedReq.op = "create-intent"
       /\ ActivePaymentsOf(AcceptedReq.oid) # {}
     => /\ reqs' = reqs
        /\ AcceptedReq.res \in {"conflict", "forbidden", "order_not_found"}
        /\ (orders[AcceptedReq.oid].userId = UserId(AcceptedReq.who)
              \/ Role(AcceptedReq.who) = "admin")
             => AcceptedReq.res \in {"conflict", "order_not_found"}
        /\ payments' = payments
        /\ intents' = intents
        /\ payCache' = payCache]_vars

\* C2 witness: a create-intent call was answered with the conflict error
\* while the order's payment was being processed, and the payment is as it was
C2_Witness ==
  /\ last.op = "create-intent"
  /\ last.res = "conflict"
  /\ Len(payments) = 1
  /\ payments[1].status = "processing"

\* C3: a payment's refundedAmount stays within 0 .. amount and the refunds
\* executed at the gateway on its charge never add up to more than amount.
C3_RefundsWithinAmount ==
  \A p \in DOMAIN payments :
    /\ payments[p].refundedAmount >= 0
    /\ payments[p].refundedAmount <= payments[p].amount
    /\ gwRefunded[payments[p].stripeChargeId] <= payments[p].amount

\* C4: canBeRefunded() is true exactly when the payment is succeeded with
\* refundedAmount < amount, or partially_refunded.
C4_CanBeRefundedExactly ==
  \A p \in DOMAIN payments :
    canBeRefunded(payments[p])
      <=> \/ /\ payments[p].status = "succeeded"
             /\ payments[p].refundedAmount < payments[p].amount
          \/ payments[p].status = "partially_refunded"

\* C5: the save of a refund r, 0 < r <= amount - refundedAmount of the loaded
\* payment, stores refundedAmount + r and the status refunded when that sum
\* reaches amount, partially_refunded otherwise; a refund of exactly the
\* remaining balance, and the default when the body has no amount, ends in
\* refunded.
C5_RefundApplied ==
  [][\A s \in Slots :
       reqs[s].pc = "rf_save" /\ reqs'[s].pc # "rf_save"
       => LET r == reqs[s]
              sum == r.inst.refundedAmount + r.amt
              row == payments'[r.pid]
          IN /\ 0 < r.amt
             /\ r.amt <= r.inst.amount - r.inst.refundedAmount
             /\ row.refundedAmount = sum
             /\ sum < r.inst.amount => row.status = "partially_refunded"
             /\ sum >= r.inst.amount => row.status = "refunded"
             /\ r.amt = r.inst.amount - r.inst.refundedAmount => row.status = "refunded"
             /\ r.arg = NoAmount => row.status = "refunded"]_vars

\* C5 witness: a refund without an amount has been saved and the payment, which
\* was succeeded, is refunded in full
C5_Witness ==
  \E s \in Slots :
    /\ reqs[s].op = "refund"
    /\ reqs[s].pc = "rf_sync"
    /\ reqs[s].arg = NoAmount
    /\ reqs[s].inst.status = "succeeded"
    /\ payments[reqs[s].pid].status = "refunded"
    /\ payments[reqs[s].pid].refundedAmount = payments[reqs[s].pid].amount

\* C6: the store never holds a refund the gateway has not executed: a step
\* changes refundedAmount only as the save of a refund the gateway accepted,
\* and a refund the gateway refuses ends there, with the payments and the
\* orders as they were.
C6_GatewayBeforeLocal ==
  [][/\ \A p \in DOMAIN payments' :
          payments'[p].refundedAmount <= gwRefunded'[payments'[p].stripeChargeId]
     /\ \A p \in DOMAIN payments :
          payments'[p].refundedAmount # payments[p].refundedAmount
            \/ (payments'[p].status # payments[p].status
                  /\ payments'[p].status \in {"refunded", "partially_refunded"})
          => \E s \in Slots : /\ reqs[s].op = "refund"
                              /\ reqs[s].pc = "rf_save"
                              /\ reqs[s].pid = p
     /\ \A s \in Slots :
          reqs[s].pc = "rf_gateway" /\ reqs'[s].pc = "idle"
          => /\ last'.res = "error"
             /\ payments' = payments
             /\ orders' = orders
             /\ gwRefunded' = gwRefunded]_vars

\* C6 witness: the gateway refused a refund and the payment is untouched
C6_Witness ==
  /\ last.op = "refund"
  /\ last.res = "error"
  /\ payments[1].status = "succeeded"
  /\ payments[1].refundedAmount = 0
  /\ gwRefunded[1] = 0

PaymentEdges ==
  {<<"pending", "processing">>, <<"processing", "succeeded">>,
   <<"pending", "failed">>, <<"pending", "cancelled">>,
   <<"processing", "cancelled">>, <<"succeeded", "partially_refunded">>,
   <<"partially_refunded", "refunded">>, <<"succeeded", "refunded">>}

\* C7: a payment's status changes only along the edges of the payment state
\* machine; a failed, cancelled or refunded payment never goes back to
\* pending, processing or succeeded.
C7_PaymentStatusEdges ==
  [][\A p \in DOMAIN payments :
       payments'[p].status # payments[p].status
       => <<payments[p].status, payments'[p].status>> \in PaymentEdges]_vars

OrderEdges ==
  {<<"pending", "confirmed">>, <<"confirmed", "processing">>,
   <<"processing", "shipped">>, <<"shipped", "delivered">>,
   <<"pending", "cancelled">>, <<"confirmed", "cancelled">>,
   <<"delivered", "refunded">>}

\* C8: an order's status changes only along pending -> confirmed -> processing
\* -> shipped -> delivered, pending|confirmed -> cancelled and delivered ->
\* refunded.
C8_OrderStatusEdges ==
  [][\A o \in OrderIds :
       orders'[o].status # orders[o].status
       => <<orders[o].status, orders'[o].status>> \in OrderEdges]_vars

\* C9: a cancel call by the order's owner or an administrator goes on to save
\* the status cancelled only when the order it reads is pending or confirmed;
\* on an order in any other status (so on one a cancel call has cancelled) it
\* is answered at once with the invalid-transition error, and a cancel call
\* that fails leaves the order as it was.
C9_CancelOnlyFromPendingOrConfirmed ==
  [][/\ Accepted /\ AcceptedReq.op = "cancel"
          /\ (orders[AcceptedReq.oid].userId = UserId(AcceptedReq.who)
                \/ Role(AcceptedReq.who) = "admin")
        => IF orders[AcceptedReq.oid].status \in {"pending", "confirmed"}
             THEN /\ reqs' # reqs
                  /\ AcceptedReq.pc = "cn_save"
                  /\ AcceptedReq.upd.status = "cancelled"
             ELSE /\ reqs' = reqs
                  /\ AcceptedReq.res = "invalid"
     /\ \A s \in Slots :
          reqs[s].pc = "cn_save" /\ reqs'[s].pc # "cn_save"
          => orders'[reqs[s].oid].status = "cancelled"
     /\ last' # last /\ last'.op = "cancel" /\ last'.res # "ok"
        => orders' = orders]_vars

\* C9 witness: the order has been cancelled by a cancel call, and the cancel
\* call after it was answered with the invalid-transition error
C9_Witness ==
  /\ last.op = "cancel"
  /\ last.res = "invalid"
  /\ orders[last.oid].status = "cancelled"
  /\ \A s \in Slots : reqs[s].pc = "idle"

\* C10: a cancel or an update that saves a new status finds the order in the
\* status it read: nothing has written the status between its read and its
\* save.
C10_CompareAndTransition ==
  [][\A s \in Slots :
       /\ reqs[s].pc \in {"cn_save", "up_save"}
       /\ reqs'[s].pc # reqs[s].pc
       /\ reqs[s].upd.status # reqs[s].inst.status
       => orders[reqs[s].oid].status = reqs[s].inst.status]_vars

\* C11: an order's status becomes refunded only from a state in which its
\* status is delivered and its paymentStatus is paid.
C11_RefundedOnlyFromDeliveredPaid ==
  [][\A o \in OrderIds :
       orders'[o].status = "refunded" /\ orders[o].status # "refunded"
       => orders[o].status = "delivered" /\ orders[o].paymentStatus = "paid"]_vars

\* the order payment status that a payment in a given status stands for
JustifiedBy(status) ==
  CASE status = "succeeded" -> "paid"
    [] status \in {"failed", "cancelled"} -> "failed"
    [] status = "refunded" -> "refunded"
    [] OTHER -> "none"

\* C12: an order's paymentStatus changes only to the value that the status of
\* one of the order's payments stands for; the update-order operation never
\* changes it on its own.
C12_PaymentStatusOnlyByCoordinator ==
  [][\A o \in OrderIds :
       orders'[o].paymentStatus # orders[o].paymentStatus
       => /\ \E p \in DOMAIN payments :
               /\ payments[p].orderId = o
               /\ JustifiedBy(payments[p].status) = orders'[o].paymentStatus
          /\ ~ \E s \in Slots : reqs[s].op = "update" /\ reqs[s].pc = "up_save"
                                  /\ reqs'[s].pc # "up_save"]_vars

SavePcs == {"cf_save", "wh_save", "rf_save"}

SyncPcs == {"cf_sync", "wh_sync", "rf_sync"}

\* C13: the save of a payment that a request has set to succeeded, failed, cancelled or refunded is
\* followed by the order synchronization, the save of any other status
\* (a partial refund among them) is not, and the save itself leaves the order
\* alone; a synchronization that goes through sets the order's paymentStatus
\* to paid for succeeded, failed for failed and cancelled, refunded for
\* refunded, and changes nothing else of the order.
C13_SyncMapping ==
  [][\A s \in Slots :
       /\ reqs[s].pc \in SavePcs /\ reqs'[s].pc # reqs[s].pc
          => /\ orders' = orders
             /\ JustifiedBy(reqs[s].upd.status) # "none"
                  <=> reqs'[s].pc \in SyncPcs
             /\ reqs[s].upd.status = "partially_refunded"
                  => reqs'[s].pc = "rf_del"
       /\ reqs[s].pc \in SyncPcs /\ reqs'[s].pc # reqs[s].pc
          => LET o == payments[reqs[s].pid].orderId
             IN /\ orders'[o].paymentStatus
                     \in {orders[o].paymentStatus, JustifiedBy(reqs[s].upd.status)}
                /\ orders'[o].status = orders[o].status
                /\ orders'[o].userId = orders[o].userId
                /\ orders' # orders
                     => orders'[o].paymentStatus = JustifiedBy(reqs[s].upd.status)]_vars

\* C13 witness: a payment_intent.canceled event has been handled and the order
\* of the cancelled payment has the paymentStatus failed
C13_Witness ==
  /\ last.op = "webhook"
  /\ last.ev = "payment_intent.canceled"
  /\ last.res = "ack"
  /\ payments[1].status = "cancelled"
  /\ orders[payments[1].orderId].paymentStatus = "failed"

\* C14: a confirm call for an intent the gateway reports as succeeded, on a
\* payment a confirm call has already set to succeeded, saves the payment with
\* the status, charge reference and method details it had, and does not go on
\* to the order synchronization.
C14_ConfirmTwice ==
  \A s \in Slots :
    /\ reqs[s].op = "confirm"
    /\ reqs[s].pc \in {"cf_save", "cf_sync"}
    /\ reqs[s].inst.status = "succeeded"
    /\ reqs[s].upd.status = "succeeded"
    => /\ reqs[s].upd.stripeChargeId = reqs[s].inst.stripeChargeId
       /\ reqs[s].upd.paymentMethodDetails = reqs[s].inst.paymentMethodDetails
       /\ reqs[s].pc # "cf_sync"

\* C15: a payment_intent.succeeded event delivered again, to a payment its
\* first delivery has set to succeeded, is not followed by a second order
\* synchronization, and its save does not take a refunded or partially
\* refunded payment back to succeeded.
C15_WebhookReplay ==
  [][\A s \in Slots :
       /\ reqs[s].op = "webhook"
       /\ reqs[s].ev = "payment_intent.succeeded"
       /\ reqs[s].pc = "wh_save"
       /\ reqs'[s].pc # "wh_save"
       => /\ payments[reqs[s].pid].status \in {"refunded", "partially_refunded"}
               => payments'[reqs[s].pid].status = payments[reqs[s].pid].status
          /\ reqs[s].inst.status = "succeeded" => reqs'[s].pc # "wh_sync"]_vars

\* C16: once the gateway intent has succeeded and the payment is stored as
\* succeeded with its charge reference and card details, no confirm call and
\* no webhook takes the status back or erases the charge reference or the
\* details, however the two are interleaved.
C16_ConfirmWebhookConverge ==
  [][\A p \in DOMAIN payments :
       /\ intents[payments[p].stripePaymentIntentId].status = "succeeded"
       /\ payments[p].status = "succeeded"
       /\ payments[p].paymentMethodDetails = "card"
       /\ \E s \in Slots : /\ reqs[s].pc \in {"cf_save", "wh_save"}
                           /\ reqs[s].pid = p
                           /\ reqs'[s].pc # reqs[s].pc
       => /\ payments'[p].status = "succeeded"
          /\ payments'[p].paymentMethodDetails = "card"
          /\ payments'[p].stripeChargeId = payments[p].stripeChargeId]_vars

\* C17: a webhook event whose signature does not verify is answered at once
\* with the signature error, and payments, orders and both caches are as they
\* were.
C17_InvalidSignatureRejected ==
  [][Accepted /\ AcceptedReq.op = "webhook" /\ ~AcceptedReq.sig
     => /\ reqs' = reqs
        /\ AcceptedReq.res = "invalid_signature"
        /\ payments' = payments
        /\ orders' = orders
        /\ payCache' = payCache
        /\ orderCache' = orderCache]_vars

\* C17 witness: a payment_intent.succeeded event with a bad signature has been
\* rejected and the pending payment it names is still pending
C17_Witness ==
  /\ last.op = "webhook"
  /\ last.ev = "payment_intent.succeeded"
  /\ ~last.sig
  /\ last.res = "invalid_signature"
  /\ payments[1].status = "pending"
  /\ orders[1].paymentStatus = "pending"

\* C18: a correctly signed webhook event whose type is none of
\* payment_intent.succeeded, payment_intent.payment_failed and
\* payment_intent.canceled is acknowledged at once, and payments, orders and
\* both caches are as they were.
C18_UnhandledEventAcknowledged ==
  [][/\ Accepted /\ AcceptedReq.op = "webhook" /\ AcceptedReq.sig
     /\ AcceptedReq.ev \notin {"payment_intent.succeeded",
                              "payment_intent.payment_failed",
                              "payment_intent.canceled"}
     => /\ reqs' = reqs
        /\ AcceptedReq.res = "ack"
        /\ payments' = payments
        /\ orders' = orders
        /\ payCache' = payCache
        /\ orderCache' = orderCache]_vars

\* C18 witness: a signed event of an unknown type has been acknowledged while
\* the payment is being processed
C18_Witness ==
  /\ last.op = "webhook"
  /\ last.ev = "unknown"
  /\ last.sig
  /\ last.res = "ack"
  /\ payments[1].status = "processing"

ItemsOf(o) == {i \in orderItems : i.orderId = o}

\* C19: in every reachable state a persisted order has line items, and an
\* order whose creation is under way has every line item of the request.
C19_OrderAndItemsAtomic ==
  \A o \in DOMAIN orders :
    /\ ItemsOf(o) # {}
    /\ \A s \in Slots :
         reqs[s].op = "create-order" /\ reqs[s].oid = o
         => Cardinality(ItemsOf(o)) = Len(reqs[s].body)

\* C20: while a create-order request looks up products and checks stock it
\* writes no order row, no line-item row and no cache entry; a lookup or a
\* stock check that fails ends the request at that item with an error and
\* without an order; and a request goes on to persist only when every item of
\* its body has passed.
C20_ValidationAllOrNothing ==
  [][\A s \in Slots :
       /\ reqs[s].op = "create-order" /\ reqs[s].pc \in {"co_product", "co_stock"}
            /\ reqs'[s] # reqs[s]
          => /\ orders' = orders
             /\ orderItems' = orderItems
             /\ orderCache' = orderCache
             /\ reqs'[s].pc \in {"idle", "co_product", "co_stock", "co_order"}
             /\ reqs'[s].pc = "idle"
                  => /\ last'.res \in {"error", "no_stock"}
                     /\ last'.k = reqs[s].k
                     /\ last'.oid = 0
       /\ reqs'[s].pc \in {"co_order", "co_items", "co_cache"}
          => reqs'[s].validated = Len(reqs'[s].body)]_vars

\* C20 witness: the second item of a request had no stock after the first had
\* passed, the request was answered with the stock error and nothing is stored
C20_Witness ==
  /\ last.op = "create-order"
  /\ last.res = "no_stock"
  /\ last.k = 2
  /\ orders = << >>
  /\ orderItems = {}
  /\ \A o \in DOMAIN orderCache : orderCache[o] = NoSnap

\* C21: when the stock call of an item fails, the create-order request ends
\* there with the insufficient-stock error, and no order row, line item or
\* cache entry is written.
C21_StockCheckFailClosed ==
  [][\A s \in Slots :
       /\ reqs[s].pc = "co_stock"
       /\ reqs'[s] # reqs[s]
       /\ (IF reqs'[s].pc = "idle" THEN last' ELSE reqs'[s]).stockCall = "failed"
       => /\ reqs'[s].pc = "idle"
          /\ last'.op = "create-order"
          /\ last'.res = "no_stock"
          /\ last'.oid = 0
          /\ orders' = orders
          /\ orderItems' = orderItems
          /\ orderCache' = orderCache]_vars

\* C21 witness: the stock call failed, the request was answered with the
\* insufficient-stock error and no order is stored
C21_Witness ==
  /\ last.op = "create-order"
  /\ last.stockCall = "failed"
  /\ last.res = "no_stock"
  /\ orders = << >>
  /\ orderItems = {}

RECURSIVE SumOfRows(_)
SumOfRows(rows) ==
  IF rows = {} THEN 0
  ELSE LET i == CHOOSE x \in rows : TRUE
       IN i.quantity * i.unitPrice + SumOfRows(rows \ {i})

\* the orders whose creation has written every line item
Complete(o) ==
  \A s \in Slots : ~(reqs[s].op = "create-order" /\ reqs[s].oid = o)

TotalIdentity(order) ==
  order.totalAmount =
    order.subtotal + order.taxAmount + order.shippingAmount - order.discountAmount

\* C22: every stored order has totalAmount = subtotal + taxAmount +
\* shippingAmount - discountAmount, every stored line item has totalPrice =
\* quantity * unitPrice, and the subtotal of an order whose line items are all
\* written is the sum of quantity * unitPrice over them.
C22_OrderTotals ==
  /\ \A o \in DOMAIN orders : TotalIdentity(orders[o])
  /\ \A i \in orderItems : i.totalPrice = i.quantity * i.unitPrice
  /\ \A o \in DOMAIN orders :
       Complete(o) /\ Cardinality(ItemsOf(o)) > 0 /\ last.res = "created"
       => orders[o].subtotal = SumOfRows(ItemsOf(o))

\* the part of C22 that holds of the stored rows
C22_TotalIdentityOnly == \A o \in DOMAIN orders : TotalIdentity(orders[o])

\* the create-order requests that have computed their amounts
Priced(s) == reqs[s].op = "create-order" /\ reqs[s].pc \in {"co_items", "co_cache"}

DelPcs == {"cf_del", "wh_del", "rf_del"}

\* C24: the order synchronization of a confirm, a refund or a webhook leaves
\* the payment rows as they are and is followed by the rest of the request
\* whether the call succeeds or not; when the call fails the order row is not
\* changed, and the request then ends with its success response.
C24_SyncBestEffort ==
  [][\A s \in Slots :
       /\ reqs[s].pc \in SyncPcs /\ reqs'[s] # reqs[s]
          => /\ payments' = payments
             /\ reqs'[s].pc \in DelPcs
             /\ reqs'[s].sync = "failed" => orders' = orders /\ orderCache' = orderCache
       /\ reqs[s].pc \in DelPcs /\ reqs[s].sync = "failed" /\ reqs'[s] # reqs[s]
          => /\ reqs'[s].pc = "idle"
             /\ last'.res \in {"ok", "ack"}
             /\ payments' = payments
             /\ orders' = orders]_vars

\* C24 witness: a confirm whose order synchronization failed has been answered
\* with success; the payment is succeeded and the order is still pending
C24_Witness ==
  /\ last.op = "confirm"
  /\ last.res = "ok"
  /\ \A s \in Slots : reqs[s].pc = "idle"
  /\ \E p \in PaymentIds :
       /\ payments[p].status = "succeeded"
       /\ orders[payments[p].orderId].paymentStatus = "pending"

\* C25: a payment is refunded only with refundedAmount >= amount, partially
\* refunded only with 0 < refundedAmount < amount, and has refundedAmount = 0
\* in every other status.
C25_StatusAgreesWithRefundedAmount ==
  \A p \in PaymentIds :
    LET payment == payments[p]
    IN CASE payment.status = "refunded" -> payment.refundedAmount >= payment.amount
         [] payment.status = "partially_refunded" ->
              /\ 0 < payment.refundedAmount
              /\ payment.refundedAmount < payment.amount
         [] OTHER -> payment.refundedAmount = 0

OrderSavePcs == {"up_save", "cn_save"}

OrderDelPcs == {"up_del", "cn_del"}

C27_CacheNotOlderThanStore ==
  \A o \in DOMAIN orders :
    /\ orderCache[o] # NoSnap
    /\ \A s \in Slots : ~(reqs[s].op \in {"update", "cancel"} /\ reqs[s].oid = o)
    => orderCache[o].order.status = orders[o].status

GetOps == {"get-order", "get-payment"}

\* the user the order or payment of a get-by-id reply belongs to in the store
\* (0 when there is none)
OwnerOf(reply) ==
  IF reply.op = "get-order"
    THEN IF reply.oid \in DOMAIN orders THEN orders[reply.oid].userId ELSE 0
    ELSE IF reply.pid \in PaymentIds THEN payments[reply.pid].userId ELSE 0

\* C28: a get-by-id that is answered with an order or a payment was made by
\* the user the entity belongs to or by an admin, and what it returns carries
\* that user; a get-by-id of a customer for an entity of another user, or for
\* none, is answered not-found and returns nothing, whether the cache held
\* the entity or not.
C28_ReadOnlyByOwnerOrAdmin ==
  last.op \in GetOps =>
    /\ last.res \in {"ok", "notfound"}
    /\ last.res = "ok"
         => /\ Role(last.who) = "admin" \/ OwnerOf(last) = UserId(last.who)
            /\ last.data # NoSnap
            /\ (IF last.op = "get-order" THEN last.data.order.userId
                ELSE last.data.userId) = OwnerOf(last)
    /\ Role(last.who) # "admin" /\ OwnerOf(last) # UserId(last.who)
         => last.res = "notfound" /\ last.data = NoSnap

\* C28 witness: customer 2 has asked for the cached order of customer 1 and
\* the request was answered not-found
C28_Witness ==
  /\ last.op = "get-order"
  /\ last.who = 2
  /\ last.res = "notfound"
  /\ left = MaxReqs - 1
  /\ orderCache[last.oid] # NoSnap
  /\ orderCache[last.oid].order.userId = 1

\* the requests that change an order or a payment on behalf of a user
MutatingOps == {"update", "cancel", "refund", "confirm"}

\* the user of request or reply r owns the order or payment r names
Owns(r) ==
  CASE r.op \in {"update", "cancel"} ->
         r.oid \in DOMAIN orders /\ orders[r.oid].userId = UserId(r.who)
    [] r.op = "refund" ->
         r.pid \in PaymentIds /\ payments[r.pid].userId = UserId(r.who)
    [] OTHER ->
         \E p \in PaymentIds :
           payments[p].orderId = r.oid /\ payments[p].userId = UserId(r.who)

Stored == <<orders, orderItems, payments, orderCache, payCache>>

\* C29: an update or a cancel of an order, or a refund or a confirm of a
\* payment, that a customer asks for an order or payment of another user is
\* answered not-found at once and changes no order, payment or cache entry;
\* such a request is in flight only for the owner or an admin, and every
\* change of the stored state is a step of such a request or of a webhook.
C29_NoChangeByNonOwner ==
  [][/\ /\ left' < left /\ reqs' = reqs
        /\ last'.op \in MutatingOps
        /\ Role(last'.who) # "admin" /\ ~Owns(last')
        => last'.res = "notfound" /\ Stored' = Stored
     /\ \A s \in Slots :
          reqs[s].pc = "idle" /\ reqs'[s].pc # "idle" /\ reqs'[s].op \in MutatingOps
          => Role(reqs'[s].who) = "admin" \/ Owns(reqs'[s])
     /\ Stored' # Stored
          => \E s \in Slots :
               /\ reqs'[s] # reqs[s]
               /\ \/ reqs[s].op = "webhook"
                  \/ /\ reqs[s].op \in MutatingOps
                     /\ Role(reqs[s].who) = "admin" \/ Owns(reqs[s])]_vars

\* C29 witness: customer 2 has asked to cancel the pending order of customer
\* 1; the answer is not-found, the order is pending and still cached
C29_Witness ==
  /\ last.op = "cancel"
  /\ last.who = 2
  /\ last.res = "notfound"
  /\ left = MaxReqs - 1
  /\ orders[1].userId = 1
  /\ orders[1].status = "pending"
  /\ orderCache[1] = OrderSnapshot(1)

\* the units of product p in the line items of pending orders
RECURSIVE UnitsOf(_, _)
UnitsOf(rows, p) ==
  IF rows = {} THEN 0
  ELSE LET i == CHOOSE x \in rows : TRUE
       IN (IF i.productId = p /\ orders[i.orderId].status = "pending"
             THEN i.quantity ELSE 0) + UnitsOf(rows \ {i}, p)

\* C30: no step of an order creation or of a cancellation changes the stock
\* of a product.
C30_StockReadOnly == [][stock' = stock]_vars

\* C30 witness: an order has been created whose lines of product 2 ask for
\* more units than the product has in stock
C30_Witness ==
  /\ last.op = "create-order"
  /\ last.res = "created"
  /\ stock[2] > 0
  /\ UnitsOf(orderItems, 2) > stock[2]

====
